---------------------------- MODULE Spec2Model ----------------------------
(***************************************************************************)
(* Coupon-bond yield-to-maturity calculator (src/src/App.jsx and its two   *)
(* sibling versions).  The component keeps an input bundle, validates it   *)
(* on every render, and, when no field is in error, builds the semiannual  *)
(* cash-flow schedule and runs 200 bisection steps on the per-period rate. *)
(*                                                                         *)
(* Numbers.  JavaScript numbers are IEEE doubles; here every quantity is a *)
(* scaled integer, rounded to nearest after every operation as a double is:*)
(*   price      in units of 1/PriceScale   (the form's step is 0.01)       *)
(*   couponPct  in units of 1/CouponScale  percent                         *)
(*   years      in units of 1/YearScale    years (quarters, so that a term *)
(*              that is not a multiple of 0.5 can be entered)              *)
(*   money      in units of 1/MoneyScale   (half a coupon is then exact,   *)
(*              and the largest undiscounted schedule fits a machine word) *)
(*   rates      in units of 1/RateScale    (a 29-bit binary fraction)      *)
(* A midpoint (lo+hi)/2 that falls between two representable rates is      *)
(* rounded to the even neighbour, as IEEE round-to-nearest-even does.      *)
(***************************************************************************)
EXTENDS Integers, Sequences, FiniteSets, TLC

PriceScale == 10 ^ 2
CouponScale == 10 ^ 4
YearScale == 2 ^ 2
MoneyScale == 5 * 10 ^ 6
RateScale == 2 ^ 29

\* ------------------------------------------------------------------------
\* Arithmetic on scaled integers
\* ------------------------------------------------------------------------

\* Quotient and remainder pairs <<q, r>> modulo c, 0 <= r < c < 2^30, kept so
\* that no intermediate value exceeds twice the divisor.
Twice(qr, c) ==
  LET r2 == 2 * qr[2]
  IN  IF r2 >= c THEN <<2 * qr[1] + 1, r2 - c>> ELSE <<2 * qr[1], r2>>

Plus(qr, a, c) ==
  LET r2 == qr[2] + (a % c)
  IN  IF r2 >= c THEN <<qr[1] + (a \div c) + 1, r2 - c>>
      ELSE <<qr[1] + (a \div c), r2>>

\* 2 * qr + bit * a
TwicePlus(qr, bit, a, c) ==
  IF bit = 1 THEN Plus(Twice(qr, c), a, c) ELSE Twice(qr, c)

\* <<q, r>> with a * b = q * c + r, five bits of b at a time
RECURSIVE MulDivQR(_, _, _)
MulDivQR(a, b, c) ==
  IF a = 0 \/ b = 0 THEN <<0, 0>>
  ELSE LET h  == MulDivQR(a, b \div 32, c)
           d  == b % 32
           s4 == TwicePlus(h, d \div 16, a, c)
           s3 == TwicePlus(s4, (d \div 8) % 2, a, c)
           s2 == TwicePlus(s3, (d \div 4) % 2, a, c)
           s1 == TwicePlus(s2, (d \div 2) % 2, a, c)
       IN  IF /\ h[1] >= 0
              /\ s4[1] >= 0
              /\ s3[1] >= 0
              /\ s2[1] >= 0
              /\ s1[1] >= 0
           THEN TwicePlus(s1, d % 2, a, c)
           ELSE <<0, 0>>

\* a * b / c rounded to nearest
MulDiv(a, b, c) ==
  LET qr == MulDivQR(a, b, c)
  IN  qr[1] + (IF 2 * qr[2] >= c THEN 1 ELSE 0)

\* x / 2 rounded to nearest, ties to even
HalfEven(x) ==
  LET q == x \div 2
  IN  IF x % 2 = 0 THEN q ELSE IF q % 2 = 0 THEN q ELSE q + 1

\* ------------------------------------------------------------------------
\* Bounds of the explored input space
\* ------------------------------------------------------------------------

\* the years field ranges over 0, 0.25, ..., MaxQuarters/4 (plus the default
\* and one value above the accepted range)
MaxQuarters == 6

\* what a form field can hold: a decimal numeral or nothing (cleared field)
Numeral(x) == [blank |-> FALSE, num |-> x]
Blank == [blank |-> TRUE, num |-> 0]

PriceTexts ==
  {Blank} \cup {Numeral(x) : x \in {4999, 5000, 9776, 10000, 15000, 15001}}
CouponTexts ==
  {Blank} \cup {Numeral(x) : x \in {-100, 0, 110088, 200000, 200001}}
YearsTexts ==
  {Blank} \cup {Numeral(x) : x \in (1 .. MaxQuarters) \cup {20, 40, 41}}

\* ------------------------------------------------------------------------
\* The component
\* ------------------------------------------------------------------------

VARIABLES
  inputs,       \* useState: {price, couponPct, years, face}
  inputErrors,  \* validateInputs(inputs) of the current render
  bond,         \* the useMemo value of the current render, null until computed
  pc,           \* "idle" between renders, "bisect" inside the memo callback
  cf, lo, hi, i,\* locals of the memo callback
  earlier       \* history: the bundle and result of the first run, recorded
                \* when the first edit replaces them (null before)

vars == <<inputs, inputErrors, bond, pc, cf, lo, hi, i, earlier>>

null == [null |-> TRUE]

\* unary plus applied to the text of a number field
ToNumber(text) == IF text.blank THEN 0 ELSE text.num

\* A power of 1 + y is kept as <<m, k>>, standing for m * 2^k / RateScale
\* with RateScale <= m < 2 * RateScale.  PowMul(p, d) is p * d for d = 1 + y.
PowMul(p, d) ==
  LET qr == MulDivQR(p[1], d, RateScale)
      q  == qr[1]
      m  == IF q < 2 * RateScale
            THEN q + (IF 2 * qr[2] >= RateScale THEN 1 ELSE 0)
            ELSE (q \div 2) + (q % 2)
      k  == IF q < 2 * RateScale THEN p[2] ELSE p[2] + 1
  IN  IF m = 2 * RateScale THEN <<RateScale, k + 1>> ELSE <<m, k>>

\* cash / p for a power p
Div(cash, p) ==
  IF p[2] > 29 THEN 0 ELSE MulDiv(cash, RateScale \div (2 ^ p[2]), p[1])

validateInputs(inp) ==
  LET priceError ==
        IF inp.price = 0 \/ inp.price < 50 * PriceScale
        THEN "Price must be at least $50"
        ELSE IF inp.price > 150 * PriceScale
        THEN "Price cannot exceed $150"
        ELSE ""
      couponError ==
        IF inp.couponPct < 0
        THEN "Coupon rate cannot be negative"
        ELSE IF inp.couponPct > 20 * CouponScale
        THEN "Coupon rate cannot exceed 20%"
        ELSE ""
      yearsError ==
        IF inp.years = 0 \/ inp.years <= 0
        THEN "Years to maturity must be positive"
        ELSE IF inp.years > 10 * YearScale
        THEN "Years to maturity cannot exceed 10"
        ELSE ""
      msg == [price |-> priceError, couponPct |-> couponError,
              years |-> yearsError]
  IN  [f \in {g \in DOMAIN msg : msg[g] # ""} |-> msg[f]]

\* the number of periods n = years * 2 is kept in half periods, so that a
\* fractional n is representable
PeriodScale == YearScale \div 2
periodsOf(inp) == inp.years

\* c = (couponPct / 100) * face in money units
couponOf(inp) ==
  inp.couponPct * (MoneyScale \div (100 * CouponScale)) * inp.face

\* the generator with the purchase put in front as period 0
cashflowsWithPurchase(inp) ==
  LET c == couponOf(inp)
      n == periodsOf(inp)
      length == IF n > 0 THEN n \div PeriodScale ELSE 0
  IN  [k \in 1 .. length + 1 |->
         IF k = 1 THEN -(inp.price * (MoneyScale \div PriceScale))
         ELSE IF (k - 2) * PeriodScale = n - PeriodScale
         THEN c \div 2 + inp.face * MoneyScale
         ELSE c \div 2]

\* the generator with the final entry tested against n instead of n - 1
cashflowsOffByOne(inp) ==
  LET c == couponOf(inp)
      n == periodsOf(inp)
      length == IF n > 0 THEN n \div PeriodScale ELSE 0
  IN  [k \in 1 .. length |->
         IF (k - 1) * PeriodScale = n
         THEN c \div 2 + inp.face * MoneyScale
         ELSE c \div 2]

\* Array.from({length: n}, (_, i) => (i === n - 1 ? c / 2 + face : c / 2))
cashflows(inp) ==
  LET c == couponOf(inp)
      n == periodsOf(inp)
      length == IF n > 0 THEN n \div PeriodScale ELSE 0
  IN  [k \in 1 .. length |->
         IF (k - 1) * PeriodScale = n - PeriodScale
         THEN c \div 2 + inp.face * MoneyScale
         ELSE c \div 2]

\* the fold with the exponent t in place of t + 1
RECURSIVE reduceFromZero(_, _, _, _, _)
reduceFromZero(flows, d, k, p, acc) ==
  IF k > Len(flows) THEN acc
  ELSE LET pow  == PowMul(p, d)
           next == acc + Div(flows[k], p)
       IN  IF next >= acc THEN reduceFromZero(flows, d, k + 1, pow, next)
           ELSE next

\* cf.reduce((acc, cash, t) => acc + cash / Math.pow(1 + y, t + 1), 0):
\* reduce(flows, d, k, p, acc) is the rest of the fold from entry k on, with
\* p = Math.pow(1 + y, k - 1) (the product of k - 1 factors d = 1 + y) and
\* acc the accumulator so far.  The test on the new accumulator makes it a
\* value before the fold goes on.
RECURSIVE reduce(_, _, _, _, _)
reduce(flows, d, k, p, acc) ==
  IF k > Len(flows) THEN acc
  ELSE LET pow  == PowMul(p, d)
           next == acc + Div(flows[k], pow)
       IN  IF next >= acc THEN reduce(flows, d, k + 1, pow, next) ELSE next

pv(flows, y) == reduce(flows, RateScale + y, 1, <<RateScale, 0>>, 0)

\* the price in money units
priceOf(inp) == inp.price * (MoneyScale \div PriceScale)

\* the midpoint written as lo + hi / 2
MidPrecedence(l, h) == l + HalfEven(h)

\* (lo + hi) / 2
Mid(l, h) == HalfEven(l + h)

\* the loop body with >= in place of >
bisectAtOrAbove(flows, price, l, h) ==
  LET mid == Mid(l, h)
  IN  IF pv(flows, mid) >= price THEN <<mid, h>> ELSE <<l, mid>>

\* the loop body with the comparison turned round
bisectSwapped(flows, price, l, h) ==
  LET mid == Mid(l, h)
  IN  IF pv(flows, mid) < price THEN <<mid, h>> ELSE <<l, mid>>

\* one pass of the loop body
bisect(flows, price, l, h) ==
  LET mid == Mid(l, h)
  IN  IF pv(flows, mid) > price THEN <<mid, h>> ELSE <<l, mid>>

\* the result without the doubling of the periodic rate
resultNotAnnualised(inp, flows, l, h) ==
  LET y == Mid(l, h)
  IN  [yPer |-> y, bey |-> y, periods |-> periodsOf(inp), cashflows |-> flows]

\* the object the memo callback returns
result(inp, flows, l, h) ==
  LET y == Mid(l, h)
  IN  [yPer |-> y, bey |-> 2 * y, periods |-> periodsOf(inp),
       cashflows |-> flows]

\* the render without the early return on errors
renderUngated(inp) ==
  /\ inputErrors' = validateInputs(inp)
  /\ bond' = null
  /\ pc' = "bisect"
  /\ cf' = cashflows(inp)
  /\ lo' = 0
  /\ hi' = RateScale
  /\ i' = 0

\* the render with the interval kept from the previous run
renderWarmStart(inp) ==
  LET errors == validateInputs(inp)
  IN  /\ inputErrors' = errors
      /\ bond' = null
      /\ IF DOMAIN errors # {}
         THEN pc' = "idle" /\ cf' = <<>> /\ i' = 0 /\ UNCHANGED <<lo, hi>>
         ELSE /\ pc' = "bisect"
              /\ cf' = cashflows(inp)
              /\ lo' = 0
              /\ hi' = IF bond = null THEN RateScale ELSE bond.yPer
              /\ i' = 0

\* the body of App: validation, then the memo callback up to the loop
render(inp) ==
  LET errors == validateInputs(inp)
  IN  /\ inputErrors' = errors
      /\ bond' = null
      /\ IF DOMAIN errors # {}
         THEN pc' = "idle" /\ cf' = <<>> /\ lo' = 0 /\ hi' = 0 /\ i' = 0
         ELSE /\ pc' = "bisect"
              /\ cf' = cashflows(inp)
              /\ lo' = 0
              /\ hi' = RateScale
              /\ i' = 0

DefaultInputs ==
  [price |-> 9776, couponPct |-> 110088, years |-> 5 * YearScale, face |-> 100]

\* first render of the mounted component
Init ==
  /\ inputs = DefaultInputs
  /\ inputErrors = validateInputs(DefaultInputs)
  /\ bond = null
  /\ pc = "bisect"
  /\ cf = cashflows(DefaultInputs)
  /\ lo = 0
  /\ hi = RateScale
  /\ i = 0
  /\ earlier = null

\* what an edit leaves behind of the run it replaces
record(inp, b, e) ==
  IF e = null /\ b # null THEN [inputs |-> inp, bond |-> b] ELSE e

\* the handler that spreads the initial bundle instead of the previous one
handleInputChangeFromDefaults(field, value) ==
  /\ pc = "idle"
  /\ inputs' = [DefaultInputs EXCEPT ![field] = ToNumber(value)]
  /\ render(inputs')
  /\ earlier' = record(inputs, bond, earlier)

\* the handler with a render that still sees the previous bundle
handleInputChangeStale(field, value) ==
  /\ pc = "idle"
  /\ inputs' = [inputs EXCEPT ![field] = ToNumber(value)]
  /\ render(inputs)
  /\ earlier' = record(inputs, bond, earlier)

\* handleInputChange(field, value) and the render it triggers
handleInputChange(field, value) ==
  /\ pc = "idle"
  /\ inputs' = [inputs EXCEPT ![field] = ToNumber(value)]
  /\ render(inputs')
  /\ earlier' = record(inputs, bond, earlier)

EditPrice == \E value \in PriceTexts : handleInputChange("price", value)
EditCoupon == \E value \in CouponTexts : handleInputChange("couponPct", value)
EditYears == \E value \in YearsTexts : handleInputChange("years", value)

Iterations == 200

\* the loop with an exit as soon as the interval cannot be narrowed
BisectStepEarlyExit ==
  /\ pc = "bisect"
  /\ i < Iterations
  /\ LET next == bisect(cf, priceOf(inputs), lo, hi)
     IN  /\ lo' = next[1]
         /\ hi' = next[2]
         /\ i' = IF next[2] - next[1] <= 1 THEN Iterations ELSE i + 1
  /\ UNCHANGED <<inputs, inputErrors, bond, pc, cf, earlier>>

\* for (let i = 0; i < 200; i++) { ... }
BisectStep ==
  /\ pc = "bisect"
  /\ i < Iterations
  /\ LET next == bisect(cf, priceOf(inputs), lo, hi)
     IN  lo' = next[1] /\ hi' = next[2]
  /\ i' = i + 1
  /\ UNCHANGED <<inputs, inputErrors, bond, pc, cf, earlier>>

\* the return of the memo callback; the render commits
ReturnBond ==
  /\ pc = "bisect"
  /\ i = Iterations
  /\ bond' = result(inputs, cf, lo, hi)
  /\ pc' = "idle"
  /\ cf' = <<>> /\ lo' = 0 /\ hi' = 0 /\ i' = 0
  /\ UNCHANGED <<inputs, inputErrors, earlier>>

Next == EditPrice \/ EditCoupon \/ EditYears \/ BisectStep \/ ReturnBond

Spec == Init /\ [][Next]_vars

\* ------------------------------------------------------------------------
\* The solver as a function of the input bundle
\* ------------------------------------------------------------------------

\* <<lo, hi>> after k further passes of the loop body, by halving k
RECURSIVE iterate(_, _, _, _)
iterate(flows, price, lh, k) ==
  IF k = 0 THEN lh
  ELSE IF k = 1 THEN bisect(flows, price, lh[1], lh[2])
  ELSE LET half == iterate(flows, price, lh, k \div 2)
       IN  IF half[1] <= half[2]
           THEN iterate(flows, price, half, k - (k \div 2))
           ELSE half

\* what the memo callback returns for an accepted bundle
solve(inp) ==
  LET flows == cashflows(inp)
      lh    == iterate(flows, priceOf(inp), <<0, RateScale>>, Iterations)
  IN  result(inp, flows, lh[1], lh[2])

\* ------------------------------------------------------------------------
\* The chart series (BondChart)
\* ------------------------------------------------------------------------

\* a rate as a percentage in units of 1/PercentScale percent
PercentScale == 10 ^ 7
Percent(rate) == MulDiv(rate, 100 * PercentScale, RateScale)

\* chartData: one point for each i = 0, 1, ... with i <= bond.periods.  The
\* label (i * 0.5).toFixed(1) is kept as the number of tenths it shows.
chartData(b, inp) ==
  LET couponValue == couponOf(inp) \div 2
      last == b.periods \div PeriodScale
  IN  [j \in 1 .. last + 1 |->
         LET period == j - 1
             couponFlow == IF period = 0 THEN 0 ELSE couponValue
             otherFlow ==
               IF period = 0 THEN -priceOf(inp)
               ELSE IF period * PeriodScale = b.periods
               THEN inp.face * MoneyScale
               ELSE 0
         IN  [yearLabel |-> period * 5,
              period |-> period,
              couponFlow |-> couponFlow,
              otherFlow |-> otherFlow,
              totalFlow |-> couponFlow + otherFlow,
              ytmLine |-> Percent(b.bey)]]

\* ------------------------------------------------------------------------
\* Vocabulary of the properties
\* ------------------------------------------------------------------------

Abs(x) == IF x < 0 THEN -x ELSE x

\* a committed render that shows a result
HasResult == pc = "idle" /\ bond # null

\* the bundle lies in the documented ranges: price 50..150, coupon 0..20,
\* years 0.5..10 in half-year steps
InDocumentedRanges(inp) ==
  /\ 50 * PriceScale <= inp.price /\ inp.price <= 150 * PriceScale
  /\ 0 <= inp.couponPct /\ inp.couponPct <= 20 * CouponScale
  /\ YearScale \div 2 <= inp.years /\ inp.years <= 10 * YearScale
  /\ inp.years % (YearScale \div 2) = 0

\* years * 2 is a positive whole number
WholePeriods(inp) == inp.years > 0 /\ inp.years % PeriodScale = 0

\* the schedule the generator has produced in this state, if any
Schedule == IF pc = "bisect" THEN cf ELSE bond.cashflows
HasSchedule == pc = "bisect" \/ HasResult

\* PV(0) <= price: no root above 0;  PV(1.0) > price: no root below 1.0
RootBelowRange(flows, inp) == pv(flows, 0) <= priceOf(inp)
RootAboveRange(flows, inp) == pv(flows, RateScale) > priceOf(inp)


\* ------------------------------------------------------------------------
\* Properties
\* ------------------------------------------------------------------------

\* The rate grid of the model is 2^-29 wide, so a present value is only
\* reproduced to about 1e-7 of the price; properties about the recomputed
\* present value use PvTolerance, which is looser than the documented 1e-9:
\* a result that misses the price by more than PvTolerance misses it by more
\* than 1e-9 as well.
PvTolerance(inp) == priceOf(inp) \div (10 ^ 6)

\* C1: for every bundle the validator accepts, the present value of the
\* returned schedule at the returned periodic rate equals the price (to
\* within the relative tolerance).
PvAtYieldIsPrice ==
  HasResult =>
    Abs(pv(bond.cashflows, bond.yPer) - priceOf(inputs)) <= PvTolerance(inputs)

\* C2: for every bundle in the documented ranges the root is bracketed by the
\* initial interval: PV(0) > price and PV(1.0) <= price.
RootInsideInterval ==
  (pc = "bisect" /\ i = 0 /\ InDocumentedRanges(inputs)) =>
    (~RootBelowRange(cf, inputs) /\ ~RootAboveRange(cf, inputs))

\* C3: when years * 2 is a positive whole number n the schedule has exactly
\* n entries, entries 1..n-1 equal c/2 and entry n equals c/2 + face, with
\* c = couponPct / 100 * face; years = 5 gives exactly 10 entries.
ScheduleShape ==
  (HasSchedule /\ WholePeriods(inputs)) =>
    LET n == inputs.years \div PeriodScale
        half == (inputs.couponPct * inputs.face
                   * (MoneyScale \div (100 * CouponScale))) \div 2
    IN  /\ Len(Schedule) = n
        /\ \A k \in 1 .. n - 1 : Schedule[k] = half
        /\ Schedule[n] = half + inputs.face * MoneyScale
        /\ (inputs.years = 5 * YearScale => Len(Schedule) = 10)

\* a committed result for a single-period bond: one entry, coupon plus face
SinglePeriodSchedule ==
  /\ HasResult
  /\ inputs.years = PeriodScale
  /\ inputs.couponPct = 200000
  /\ bond.cashflows = <<110 * MoneyScale>>

\* C4: every result carries both derived metrics as direct formulas of the
\* returned periodic rate: bey = 2 * y and ear = (1 + y)^2 - 1.
CarriesBothMetrics ==
  HasResult =>
    /\ {"bey", "ear"} \subseteq DOMAIN bond
    /\ bond.bey = 2 * bond.yPer
    /\ bond.ear = 2 * bond.yPer + MulDiv(bond.yPer, bond.yPer, RateScale)

\* C5: the error set is that of the current bundle; while it is not empty
\* the solver is not running and there is no result; a committed render has
\* a result exactly when the error set is empty.
ResultIffNoErrors ==
  /\ inputErrors = validateInputs(inputs)
  /\ DOMAIN inputErrors # {} => (bond = null /\ pc = "idle" /\ cf = <<>>)
  /\ pc = "idle" => (bond # null <=> DOMAIN inputErrors = {})

\* a committed render of a bundle with a field in error, after a result had
\* been shown
ErrorsHideResult ==
  /\ pc = "idle"
  /\ "years" \in DOMAIN inputErrors
  /\ inputs.price = 100 * PriceScale
  /\ bond = null

\* C6: every bundle outside the documented ranges, or whose years is not a
\* multiple of 0.5, gets a field error, so the solver only ever runs on
\* bundles in the documented ranges with years * 2 a positive whole number.
ValidatorRejectsUndocumented ==
  /\ ~InDocumentedRanges(inputs) => DOMAIN inputErrors # {}
  /\ HasSchedule => InDocumentedRanges(inputs)

\* C7: of two bundles in the documented ranges that differ only in price,
\* the dearer one has the strictly smaller bond-equivalent yield.
BeyStrictlyDecreasingInPrice ==
  (HasResult /\ InDocumentedRanges(inputs)) =>
    \A value \in PriceTexts :
      LET dearer == [inputs EXCEPT !.price = ToNumber(value)]
      IN  (InDocumentedRanges(dearer) /\ dearer.price > inputs.price)
            => solve(dearer).bey < bond.bey

\* C8: a bond priced at par (price = face) in the documented ranges yields
\* its coupon rate: bey * 100 is within 1e-6 of couponPct.  Percent rounds
\* by at most half a unit, so a difference of at most 9 units of
\* 1/PercentScale is a true difference below 1e-6.
ParBondYieldsCoupon ==
  (HasResult /\ InDocumentedRanges(inputs)
     /\ inputs.price = inputs.face * PriceScale) =>
    Abs(Percent(bond.bey) - inputs.couponPct * (PercentScale \div CouponScale))
      < PercentScale \div (10 ^ 6)

\* a par bond with the default coupon and ten years to run has been solved
ParBondSolved ==
  /\ HasResult
  /\ inputs.price = 100 * PriceScale
  /\ inputs.couponPct = 110088
  /\ inputs.years = 10 * YearScale
  /\ bond.bey > 0

\* What a step of the solver does when the root is outside [0, 1.0].  A
\* distance of 2^-200 is less than one unit of the rate grid, so "within
\* 2^-200 of the boundary" is equality here.
SaturationStep ==
  /\ (pc = "bisect" /\ i < Iterations /\ RootBelowRange(cf, inputs)) =>
       (lo = 0 /\ lo' = lo /\ hi' = Mid(lo, hi))
  /\ (pc = "bisect" /\ i < Iterations /\ RootAboveRange(cf, inputs)) =>
       (hi = RateScale /\ hi' = hi /\ lo' = Mid(lo, hi))
  /\ (pc = "bisect" /\ i = Iterations) =>
       /\ bond' # null
       /\ RootBelowRange(cf, inputs) => bond'.yPer = 0
       /\ RootAboveRange(cf, inputs) => bond'.yPer = RateScale

\* C9: when PV(0) <= price every pass of the loop moves hi (lo stays 0), when
\* PV(1.0) > price every pass moves lo (hi stays 1.0); no error is raised:
\* the callback returns a result, whose rate is at that boundary.
SaturatesAtBoundary == [][SaturationStep]_vars

\* a result at the upper boundary: a half-year bond at 50 whose single
\* payment discounted at 100% per period is still worth more than 50
UpperBoundaryResult ==
  /\ HasResult
  /\ RootAboveRange(bond.cashflows, inputs)
  /\ bond.yPer = RateScale

\* C10, as documented: the default bundle gives periods = 10, entries 1..9
\* equal to 5.5044, entry 10 equal to 105.5044, and bey * 100 within 0.05 of
\* 11.84.
DefaultScenarioAsStated ==
  (HasResult /\ inputs = DefaultInputs) =>
    /\ bond.periods = 10 * PeriodScale
    /\ Len(bond.cashflows) = 10
    /\ \A k \in 1 .. 9 : bond.cashflows[k] = 55044 * (MoneyScale \div 10 ^ 4)
    /\ bond.cashflows[10] = 1055044 * (MoneyScale \div 10 ^ 4)
    /\ Abs(Percent(bond.bey) - 1184 * (PercentScale \div 100))
         <= 5 * (PercentScale \div 100)

\* C10, amended: the same schedule, and bey * 100 within 0.05 of 11.61.
DefaultScenario ==
  (HasResult /\ inputs = DefaultInputs) =>
    /\ bond.periods = 10 * PeriodScale
    /\ Len(bond.cashflows) = 10
    /\ \A k \in 1 .. 9 : bond.cashflows[k] = 55044 * (MoneyScale \div 10 ^ 4)
    /\ bond.cashflows[10] = 1055044 * (MoneyScale \div 10 ^ 4)
    /\ Abs(Percent(bond.bey) - 1161 * (PercentScale \div 100))
         <= 5 * (PercentScale \div 100)

\* the result of the default bundle is on display
DefaultResultShown ==
  /\ HasResult
  /\ inputs = DefaultInputs
  /\ bond.periods = 10 * PeriodScale
  /\ bond.bey > 0

\* C11: a zero-coupon bundle in the documented ranges gives a schedule whose
\* entries are all 0 except the last, which equals face, and the returned
\* rate still reprices the bond: PV(yPer) equals the price (to within the
\* relative tolerance).
ZeroCouponRepriced ==
  (HasResult /\ InDocumentedRanges(inputs) /\ inputs.couponPct = 0) =>
    LET n == Len(bond.cashflows)
    IN  /\ n >= 1
        /\ \A k \in 1 .. n - 1 : bond.cashflows[k] = 0
        /\ bond.cashflows[n] = inputs.face * MoneyScale
        /\ Abs(pv(bond.cashflows, bond.yPer) - priceOf(inputs))
             <= PvTolerance(inputs)

\* C12: what is on display is computed from scratch from the current
\* bundle: the schedule inside the solver and in a committed result is that
\* of the current inputs, and a committed result is the solver's value for
\* the current inputs, whatever was edited before.
NoStaleResult ==
  /\ HasSchedule => Schedule = cashflows(inputs)
  /\ HasResult => bond = solve(inputs)

\* a result on display after the price and then the years were edited
ResultAfterTwoEdits ==
  /\ HasResult
  /\ inputs.price = 150 * PriceScale
  /\ inputs.years = 3 * PeriodScale
  /\ inputs.couponPct = DefaultInputs.couponPct
  /\ bond.periods = 3 * PeriodScale

\* What a run of the solver does to the state: it never writes the bundle,
\* and what it returns depends on the bundle alone.
PureRun ==
  pc = "bisect" =>
    /\ inputs' = inputs
    /\ pc' = "idle" =>
         /\ bond' = solve(inputs)
         /\ (earlier # null /\ inputs = earlier.inputs) => bond' = earlier.bond

\* C13: the solver is a deterministic function of the bundle: every run, in
\* whatever order the bundles were entered, returns solve of its bundle, a
\* later run on the bundle of the first run returns the first run's yPer,
\* bey, periods and cashflows, and a run leaves the bundle unchanged.
SolverIsPure == [][PureRun]_vars

\* a later run on the bundle of the first run (an edit re-entered it, with
\* or without runs on other bundles in between) has returned what the first
\* run returned
FirstBundleSolvedAgain ==
  /\ HasResult
  /\ earlier # null
  /\ inputs = earlier.inputs
  /\ bond = earlier.bond

\* C14: every schedule produced for an accepted bundle has its entries
\* before the last equal to couponPct / 100 * face / 2 and its last entry
\* equal to that amount plus face: the principal is always in the schedule.
PrincipalAlwaysPresent ==
  HasSchedule =>
    LET n == Len(Schedule)
        half == couponOf(inputs) \div 2
    IN  /\ n >= 1
        /\ \A k \in 1 .. n - 1 : Schedule[k] = half
        /\ Schedule[n] = half + inputs.face * MoneyScale

\* C15: in every result, periods is a positive whole number and equals the
\* number of entries of cashflows.
PeriodsCountsEntries ==
  HasResult =>
    /\ bond.periods > 0
    /\ bond.periods % PeriodScale = 0
    /\ bond.periods \div PeriodScale = Len(bond.cashflows)

\* What a step does while the solver runs: before the 200th pass the only
\* step is a pass of the loop, which counts one up and stays in the loop
\* (no early exit, not even when lo = hi, and no other way out); after the
\* 200th pass the return can be made and is the only step, with
\* yPer = (lo + hi) / 2.  A render enters the loop with the count at 0, so
\* the count is the number of passes made and the run ends after 200.
CountedStep ==
  /\ (pc = "bisect" /\ i < Iterations) =>
       (pc' = "bisect" /\ i' = i + 1 /\ bond' = null)
  /\ (pc = "bisect" /\ i = Iterations) =>
       /\ ENABLED ReturnBond
       /\ pc' = "idle" /\ bond' # null /\ bond'.yPer = Mid(lo, hi)
  /\ (pc = "idle" /\ pc' = "bisect") => i' = 0
  /\ i \in 0 .. Iterations

\* C16: on every bundle it is invoked on, the loop performs exactly 200
\* passes, with no early exit and no failure path, and then the run ends
\* with a result whose yPer is (lo + hi) / 2.
ExactlyTwoHundredSteps == [][CountedStep]_vars

\* the 200th pass has been made with the interval collapsed to one point:
\* the loop went on although nothing was left to narrow
AllPassesMadeOnCollapsedInterval ==
  /\ pc = "bisect"
  /\ i = Iterations
  /\ lo = hi

\* a render enters the loop with lo = 0 and hi = 1.0
StartsOnUnitInterval ==
  (pc' = "bisect" /\ i' = 0) => (lo' = 0 /\ hi' = RateScale)

\* C17, as documented: the search starts at lo = 0, hi = 1.0; each pass
\* changes exactly one of lo, hi to the midpoint and halves the width, so
\* that after k passes 0 <= lo < hi <= 1.0 and hi - lo = 1/2^k (and 1/2^200
\* after the last); lo never decreases and hi never increases.
IntervalHalvesAsStated ==
  [][/\ StartsOnUnitInterval
     /\ (pc = "bisect" /\ i < Iterations) =>
          /\ 0 <= lo' /\ lo' < hi' /\ hi' <= RateScale
          /\ 2 * (hi' - lo') = hi - lo
          /\ \/ lo' = Mid(lo, hi) /\ lo' # lo /\ hi' = hi
             \/ hi' = Mid(lo, hi) /\ hi' # hi /\ lo' = lo
          /\ lo' >= lo /\ hi' <= hi]_vars

\* C17, amended: the search starts at lo = 0, hi = 1.0; each pass assigns
\* the computed midpoint to exactly one of lo, hi and leaves the other
\* unchanged, so 0 <= lo <= hi <= 1.0, lo never decreases and hi never
\* increases; the width halves exactly as long as the midpoint is
\* representable, after which the midpoint is rounded onto one of the two ends
\* and the width no longer shrinks below one unit of the grid (it may become
\* 0); after the last pass the width is at most one unit.
IntervalNarrows ==
  [][/\ StartsOnUnitInterval
     /\ (pc = "bisect" /\ i < Iterations) =>
          /\ 0 <= lo /\ lo <= lo' /\ lo' <= hi' /\ hi' <= hi /\ hi <= RateScale
          /\ \/ lo' = Mid(lo, hi) /\ hi' = hi
             \/ hi' = Mid(lo, hi) /\ lo' = lo
          /\ IF (hi - lo) % 2 = 0 THEN 2 * (hi' - lo') = hi - lo
             ELSE hi' - lo' <= hi - lo
          /\ i' = Iterations => hi' - lo' <= 1]_vars

\* the loop has ended on an interior root with lo and hi one unit apart:
\* the midpoint had been rounded onto an end, the width is not 1/2^200
EndsOneUnitWide ==
  /\ pc = "bisect"
  /\ i = Iterations
  /\ 0 < lo
  /\ hi - lo = 1
  /\ hi < RateScale

\* C18: if PV(0) > price >= PV(1.0) then after every pass PV(lo) > price >=
\* PV(hi), so the root stays inside [lo, hi]; a pass sets lo to the midpoint
\* exactly when PV(midpoint) > price and sets hi to it otherwise.
RootStaysBracketed ==
  [][(pc = "bisect" /\ i < Iterations) =>
       /\ IF pv(cf, Mid(lo, hi)) > priceOf(inputs)
          THEN lo' = Mid(lo, hi) /\ hi' = hi
          ELSE hi' = Mid(lo, hi) /\ lo' = lo
       /\ \/ /\ pv(cf, lo') > priceOf(inputs)
             /\ pv(cf, hi') <= priceOf(inputs)
          \/ RootBelowRange(cf, inputs)
          \/ RootAboveRange(cf, inputs)]_vars

\* the loop has ended on the default bundle with both ends moved inwards and
\* the root still between them
DefaultRootBracketed ==
  /\ pc = "bisect"
  /\ i = Iterations
  /\ inputs = DefaultInputs
  /\ 0 < lo /\ hi < RateScale
  /\ pv(cf, lo) > priceOf(inputs)
  /\ pv(cf, hi) <= priceOf(inputs)

\* the plain sum of a schedule
RECURSIVE Sum(_, _)
Sum(flows, k) == IF k = 0 THEN 0 ELSE flows[k] + Sum(flows, k - 1)

\* C19: for every accepted bundle all schedule entries are non-negative and
\* none of them is the purchase outflow: the undiscounted PV is the plain sum
\* of the coupon and principal entries, the chart has one point more than
\* the schedule, and -price is the other-flow of the chart's period 0 only.
NoOutflowInSchedule ==
  /\ HasSchedule =>
       /\ \A k \in 1 .. Len(Schedule) : Schedule[k] >= 0
       /\ pv(Schedule, 0) = Sum(Schedule, Len(Schedule))
  /\ HasResult =>
       LET data == chartData(bond, inputs)
       IN  /\ Len(data) = Len(bond.cashflows) + 1
           /\ data[1].period = 0
           /\ data[1].otherFlow = -priceOf(inputs)
           /\ data[1].otherFlow < 0
           /\ \A j \in 2 .. Len(data) :
                data[j].otherFlow >= 0 /\ data[j].couponFlow >= 0

\* the chart of a zero-coupon result over three periods: coupon entries of
\* exactly 0 in the schedule and the outflow at period 0 of the chart
ZeroCouponChart ==
  /\ HasResult
  /\ inputs.couponPct = 0
  /\ bond.cashflows = <<0, 0, inputs.face * MoneyScale>>
  /\ chartData(bond, inputs)[1].totalFlow = -priceOf(inputs)

\* the texts a field's control can deliver
FieldTexts(field) ==
  IF field = "price" THEN PriceTexts
  ELSE IF field = "couponPct" THEN CouponTexts
  ELSE YearsTexts

\* C20: an edit replaces only the named field of the bundle, with the
\* number its text denotes, and leaves the other three fields unchanged; no
\* control names face, so face is 100 in every reachable state.
EditFrame ==
  [][/\ inputs.face = 100 /\ inputs'.face = 100
     /\ DOMAIN inputs' = DOMAIN inputs
     /\ inputs' # inputs =>
          /\ pc = "idle"
          /\ \E field \in {"price", "couponPct", "years"} :
               /\ \A g \in DOMAIN inputs \ {field} : inputs'[g] = inputs[g]
               /\ \E value \in FieldTexts(field) :
                    inputs'[field] = ToNumber(value)]_vars

\* three edits, one per control, each still in the bundle beside the others
ThreeEditsKept ==
  /\ inputs.price = 4999
  /\ inputs.couponPct = 200001
  /\ inputs.years = 41
  /\ inputs.face = 100

\* C21: whenever a result exists the chart has one point for period 0, with
\* otherFlow = -price and couponFlow = 0, and exactly one point for each
\* period i of the schedule, whose couponFlow + otherFlow equals entry i of
\* cashflows: the coupon alone before the last period, the coupon plus face
\* at the last; every point carries ytmLine = bey * 100.
ChartMatchesResult ==
  HasResult =>
    LET data == chartData(bond, inputs)
        n == Len(bond.cashflows)
        half == couponOf(inputs) \div 2
    IN  /\ Len(data) = n + 1
        /\ data[1].period = 0
        /\ data[1].couponFlow = 0
        /\ data[1].otherFlow = -priceOf(inputs)
        /\ \A k \in 1 .. n :
             /\ data[k + 1].period = k
             /\ data[k + 1].couponFlow + data[k + 1].otherFlow
                  = bond.cashflows[k]
             /\ data[k + 1].totalFlow = bond.cashflows[k]
             /\ data[k + 1].couponFlow = half
             /\ data[k + 1].otherFlow
                  = (IF k = n THEN inputs.face * MoneyScale ELSE 0)
        /\ \A j \in 1 .. n + 1 : data[j].ytmLine = Percent(bond.bey)

=============================================================================
